---- MODULE Spec2Model ----
(***************************************************************************)
(* ts_query_ls: the batch linter (src/cli/lint.rs) and the hover handler   *)
(* (src/handlers/hover.rs).                                                *)
(*                                                                         *)
(* Option<T> values are modelled as sequences: <<>> is None, <<x>> is      *)
(* Some(x).  A backquote of the program's texts is written ' here.         *)
(***************************************************************************)
EXTENDS Integers, Sequences, FiniteSets, TLC

(***************************************************************************)
(* Bounds of the model.                                                    *)
(***************************************************************************)
\* Number of query files get_scm_files discovers, at most.
MaxFiles == 2
\* Number of diagnostics get_diagnostics returns for one file, at most.
MaxDiags == 2
\* Number of hover requests in flight at once, at most.
NumHovers == 1

VARIABLES
    \* ---- lint_directories (src/cli/lint.rs) ----
    config_ok,      \* input: serde_json::from_str::<Options>(&config) is Ok
    scm_files,      \* input: the discovered files, in discovery order
    lpc,            \* position of lint_directories
    parse_count,    \* how many times the configuration was parsed
    config_error,   \* "Could not parse the provided configuration" was printed
    discovered,     \* get_scm_files was called
    idx,            \* next element the filter_map closure is applied to
    exit_code,      \* the shared AtomicI32
    task,           \* per file: state of the spawned lint_file task
    read_failed,    \* per file: "Failed to read ..." was printed
    reported,       \* per file: number of diagnostics printed so far
    ret,            \* Option<i32>: the value lint_directories returned
    \* ---- Backend and hover (src/handlers/hover.rs) ----
    options,        \* backend.options: the validator registry behind the RwLock
    document_map,   \* backend.document_map: uri -> DocumentData
    language_map,   \* backend.language_map: language name -> LanguageData
    guards,         \* per hover request: read guards of backend.options it holds
    queue,          \* the RwLock's FIFO queue of suspended acquirers
    wpc,            \* position of the registry replace (the writer)
    wnew,           \* the registry the writer installs
    wstep,          \* how many fields of it are installed
    hpc,            \* per hover request: position in hover
    hreq,           \* per hover request: HoverParams (uri, position)
    hresult         \* per hover request: the Result<Option<Hover>> computed

lint_vars == <<config_ok, scm_files, lpc, parse_count, config_error, discovered,
               idx, exit_code, task, read_failed, reported, ret>>

hover_vars == <<options, document_map, language_map, guards, queue, wpc, wnew,
                wstep, hpc, hreq, hresult>>

vars == <<lint_vars, hover_vars>>

(***************************************************************************)
(* The batch linter.                                                       *)
(***************************************************************************)
\* A discovered file: whether fs::read_to_string succeeds on it, and how many
\* diagnostics get_diagnostics yields for its contents.  Discovery yields
\* paths that exist and are valid UTF-8 (the unwraps of lines 56, 82 and 90
\* succeed).
Unreadable == [readable |-> FALSE, diags |-> 0]

FileKinds == {Unreadable} \cup {[readable |-> TRUE, diags |-> d] : d \in 0..MaxDiags}

FileLists == UNION {[1..n -> FileKinds] : n \in 0..MaxFiles}

FilesIdx == 1..Len(scm_files)

LintInit ==
    /\ config_ok \in BOOLEAN
    /\ scm_files \in FileLists
    /\ lpc = "start"
    /\ parse_count = 0
    /\ config_error = FALSE
    /\ discovered = FALSE
    /\ idx = 1
    /\ exit_code = 0
    /\ task = [i \in FilesIdx |-> "none"]
    /\ read_failed = [i \in FilesIdx |-> FALSE]
    /\ reported = [i \in FilesIdx |-> 0]
    /\ ret = <<>>

PcAfterParseIgnoringError(ok) == "discover"

\* lint.rs 69-72: let Ok(options) = ... else { eprintln!; return 1 }
PcAfterParse(ok) == IF ok THEN "discover" ELSE "done"

\* lint.rs 69-73: the configuration is parsed; a failure is reported and
\* returns 1 at once.
LintParseConfig ==
    /\ lpc = "start"
    /\ parse_count' = parse_count + 1
    /\ lpc' = PcAfterParse(config_ok)
    /\ config_error' = ~config_ok
    /\ ret' = IF lpc' = "done" THEN <<1>> ELSE ret
    /\ UNCHANGED <<config_ok, scm_files, discovered, idx, exit_code, task,
                   read_failed, reported>>
    /\ UNCHANGED hover_vars

\* lint.rs 74-81: the exit code is created as 0, the files are discovered and
\* the (lazy) filter_map over them is built.
LintDiscover ==
    /\ lpc = "discover"
    /\ discovered' = TRUE
    /\ exit_code' = 0
    /\ idx' = 1
    /\ lpc' = "spawn"
    /\ UNCHANGED <<config_ok, scm_files, parse_count, config_error, task,
                   read_failed, reported, ret>>
    /\ UNCHANGED hover_vars

IdxAfterReadFailureAborting(i, n) == n + 1

\* lint.rs 89-93: the closure returns None and the iteration goes on with the
\* next file.
IdxAfterReadFailure(i, n) == i + 1

\* lint.rs 81-94, one application of the filter_map closure (join_all drains
\* the iterator before it awaits anything): the file is read; a readable file
\* gets a spawned lint_file task, an unreadable one is reported and sets the
\* exit code.
LintReadNext ==
    /\ lpc = "spawn"
    /\ idx <= Len(scm_files)
    /\ IF scm_files[idx].readable
       THEN /\ task' = [task EXCEPT ![idx] = "spawned"]
            /\ idx' = idx + 1
            /\ UNCHANGED <<read_failed, exit_code>>
       ELSE /\ read_failed' = [read_failed EXCEPT ![idx] = TRUE]
            /\ exit_code' = 1
            /\ idx' = IdxAfterReadFailure(idx, Len(scm_files))
            /\ UNCHANGED task
    /\ UNCHANGED <<config_ok, scm_files, lpc, parse_count, config_error,
                   discovered, reported, ret>>
    /\ UNCHANGED hover_vars

JoinedWithoutAwait(t) == TRUE

\* lint.rs 95: join_all(tasks).await resolves when every JoinHandle has.
Joined(t) == \A i \in DOMAIN t : t[i] \in {"none", "done"}

LintJoin ==
    /\ lpc = "spawn"
    /\ idx > Len(scm_files)
    /\ Joined(task)
    /\ lpc' = "joined"
    /\ UNCHANGED <<config_ok, scm_files, parse_count, config_error, discovered,
                   idx, exit_code, task, read_failed, reported, ret>>
    /\ UNCHANGED hover_vars

\* lint.rs 96: exit_code.load(Relaxed) is the return value.
LintReturn ==
    /\ lpc = "joined"
    /\ ret' = <<exit_code>>
    /\ lpc' = "done"
    /\ UNCHANGED <<config_ok, scm_files, parse_count, config_error, discovered,
                   idx, exit_code, task, read_failed, reported>>
    /\ UNCHANGED hover_vars

\* lint.rs 27-42: lint_file parses the source, reads the options and awaits
\* get_diagnostics.
TaskDiagnose(i) ==
    /\ task[i] = "spawned"
    /\ task' = [task EXCEPT ![i] = "checked"]
    /\ UNCHANGED <<config_ok, scm_files, lpc, parse_count, config_error,
                   discovered, idx, exit_code, read_failed, reported, ret>>
    /\ UNCHANGED hover_vars

ExitCodeOverwritten(code, n) == IF n # 0 THEN 1 ELSE 0

\* lint.rs 43-44: the exit code is stored, as 1, only when there are diagnostics.
ExitCodeAfterCheck(code, n) == IF n # 0 THEN 1 ELSE code

TaskCheck(i) ==
    /\ task[i] = "checked"
    /\ exit_code' = ExitCodeAfterCheck(exit_code, scm_files[i].diags)
    /\ task' = [task EXCEPT ![i] = IF scm_files[i].diags # 0 THEN "reporting" ELSE "done"]
    /\ UNCHANGED <<config_ok, scm_files, lpc, parse_count, config_error,
                   discovered, idx, read_failed, reported, ret>>
    /\ UNCHANGED hover_vars

\* lint.rs 45-61: one iteration of the loop printing the diagnostics.
TaskReport(i) ==
    /\ task[i] = "reporting"
    /\ reported' = [reported EXCEPT ![i] = @ + 1]
    /\ task' = [task EXCEPT ![i] = IF reported[i] + 1 = scm_files[i].diags
                                   THEN "done" ELSE "reporting"]
    /\ UNCHANGED <<config_ok, scm_files, lpc, parse_count, config_error,
                   discovered, idx, exit_code, read_failed, ret>>
    /\ UNCHANGED hover_vars

(***************************************************************************)
(* Backend data: the validator registry, the documents, the grammars.      *)
(***************************************************************************)
MapGet(m, k) == IF k \in DOMAIN m THEN <<m[k]>> ELSE <<>>

Param(type_, arity, description) ==
    [type_ |-> type_, arity |-> arity, description |-> description]

\* Two configurations (Options, hover.rs 54-59 and 131-135): each name of
\* one namespace of A is absent from that namespace of B, and the three fields
\* of A differ from the three fields of B.
OptionsA ==
    [valid_predicates |->
        ("eq" :> [description |-> "Checks for equality",
                  parameters |-> <<Param("capture", "required", <<"The capture">>),
                                   Param("any", "required", <<>>)>>]),
     valid_directives |->
        ("set" :> [description |-> "Sets metadata",
                   parameters |-> <<Param("any", "required", <<>>),
                                    Param("any", "optional", <<"The value">>)>>]),
     valid_captures |->
        ("test" :> ("error" :> "An error node")) @@
        ("highlights" :> ("error" :> "A syntax error"))]

OptionsB ==
    [valid_predicates |->
        ("set" :> [description |-> "Tests a property",
                   parameters |-> <<Param("capture", "variadic", <<>>)>>]),
     valid_directives |->
        ("eq" :> [description |-> "Marks equal nodes", parameters |-> <<>>]),
     valid_captures |->
        ("test" :> (("error" :> "A parse failure") @@ ("cap" :> "A call")))]

Registries == {OptionsA, OptionsB}

OptionsFields == <<"valid_predicates", "valid_directives", "valid_captures">>

SymbolInfo(label) == [label |-> label, named |-> TRUE]

\* LanguageData (hover.rs 24-28): the supertype map of each known grammar; the
\* subtypes are in the order their set iterates in.
Languages ==
    ("lang" :> [supertype_map |->
        (SymbolInfo("supertype") :> <<SymbolInfo("test"), SymbolInfo("test2")>>)]) @@
    ("errlang" :> [supertype_map |->
        (SymbolInfo("ERROR") :> <<SymbolInfo("recovered")>>)])

\* What hover reads of the tree at one cursor position: the node
\* descendant_for_point_range returns (kind, text, range as <<line, first
\* column, end column>>, kind of its parent, text of the parent's
\* named_child(1)) and the capture get_current_capture_node returns there.
Node(kind, text, range, parent, named_child1, capture) ==
    [kind |-> kind, text |-> text, range |-> range, parent |-> parent,
     named_child1 |-> named_child1, capture |-> capture]

\* A capture node: its text ("@" followed by the name) and its range.
Capture(name, range) == [text |-> <<"@", name>>, range |-> range]

\* The test's SOURCE (hover.rs 204-218), then `(#supertype? @node)` and
\* `(#ERROR! @node)`.
TestTree ==
    << Node("program", "SOURCE", <<0, 0, 0>>, <<>>, <<>>, <<>>),
       Node("(", "(", <<0, 0, 1>>, <<"named_node">>, <<>>, <<>>),
       Node("identifier", "ERROR", <<0, 1, 6>>, <<"named_node">>, <<>>, <<>>),
       Node("@", "@", <<0, 8, 9>>, <<"capture">>, <<>>, <<Capture("error", <<0, 8, 14>>)>>),
       Node("identifier", "error", <<0, 9, 14>>, <<"capture">>, <<>>,
            <<Capture("error", <<0, 8, 14>>)>>),
       Node("identifier", "supertype", <<0, 16, 25>>, <<"named_node">>, <<>>, <<>>),
       Node("identifier", "supertype", <<2, 1, 10>>, <<"named_node">>, <<>>, <<>>),
       Node("identifier", "test", <<2, 11, 15>>, <<"named_node">>, <<>>, <<>>),
       Node("MISSING", "MISSING", <<4, 1, 8>>, <<"missing_node">>, <<>>, <<>>),
       Node("identifier", "supertype", <<4, 9, 18>>, <<"missing_node">>, <<>>, <<>>),
       Node("_", "_", <<6, 1, 2>>, <<"named_node">>, <<>>, <<>>),
       Node("_", "_", <<7, 0, 1>>, <<"anonymous_node">>, <<>>, <<>>),
       Node(".", ".", <<9, 10, 11>>, <<"named_node">>, <<>>, <<>>),
       Node("?", "?", <<9, 24, 25>>, <<"quantifier">>, <<>>, <<>>),
       Node("+", "+", <<11, 22, 23>>, <<"quantifier">>, <<>>, <<>>),
       Node("*", "*", <<11, 24, 25>>, <<"quantifier">>, <<>>, <<>>),
       Node("identifier", "cap", <<11, 27, 30>>, <<"capture">>, <<>>,
            <<Capture("cap", <<11, 26, 30>>)>>),
       Node("[", "[", <<13, 0, 1>>, <<"list">>, <<>>, <<>>),
       Node("]", "]", <<13, 21, 22>>, <<"list">>, <<>>, <<>>),
       Node("identifier", "supertype", <<15, 2, 11>>, <<"predicate">>, <<"?">>, <<>>),
       Node("identifier", "ERROR", <<16, 2, 7>>, <<"predicate">>, <<"!">>, <<>>) >>

\* `(#eq? @x "foo") (#set! a "b") (#set? @x) (#eq! @x) (#foo? @x) (#set`,
\* `(supertype) (ERROR)`, a `.` inside a predicate, and captures with a stray
\* token after the sigil (`(a)? @?error`, `@[cap`, `@.error`, `@_error`): a
\* tree in which the stray token lies in an ERROR node inside the capture, so
\* that get_current_capture_node finds the capture at the token.
HighlightsTree ==
    << Node("identifier", "eq", <<0, 2, 4>>, <<"predicate">>, <<"?">>, <<>>),
       Node("identifier", "set", <<1, 2, 5>>, <<"predicate">>, <<"!">>, <<>>),
       Node("identifier", "set", <<2, 2, 5>>, <<"predicate">>, <<"?">>, <<>>),
       Node("identifier", "eq", <<3, 2, 4>>, <<"predicate">>, <<"!">>, <<>>),
       Node("identifier", "foo", <<4, 2, 5>>, <<"predicate">>, <<"?">>, <<>>),
       Node("identifier", "set", <<5, 2, 5>>, <<"predicate">>, <<>>, <<>>),
       Node("identifier", "supertype", <<6, 1, 10>>, <<"named_node">>, <<>>, <<>>),
       Node("identifier", "ERROR", <<6, 13, 18>>, <<"named_node">>, <<>>, <<>>),
       Node(".", ".", <<7, 6, 7>>, <<"predicate">>, <<"?">>, <<>>),
       Node("?", "?", <<8, 1, 2>>, <<"ERROR">>, <<>>, <<Capture("error", <<8, 0, 7>>)>>),
       Node("[", "[", <<9, 1, 2>>, <<"ERROR">>, <<>>, <<Capture("cap", <<9, 0, 5>>)>>),
       Node(".", ".", <<10, 1, 2>>, <<"ERROR">>, <<>>, <<Capture("error", <<10, 0, 7>>)>>),
       Node("_", "_", <<11, 1, 2>>, <<"ERROR">>, <<>>, <<Capture("error", <<11, 0, 7>>)>>) >>

\* `(supertype) (ERROR) @error`
SmallTree ==
    << Node("identifier", "supertype", <<0, 1, 10>>, <<"named_node">>, <<>>, <<>>),
       Node("identifier", "ERROR", <<0, 13, 18>>, <<"named_node">>, <<>>, <<>>),
       Node("identifier", "error", <<0, 21, 26>>, <<"capture">>, <<>>,
            <<Capture("error", <<0, 20, 26>>)>>) >>

\* DocumentData (lint.rs 34-39): tree, rope, language_name, version.
Document(tree, rope, language_name) ==
    [tree |-> tree, rope |-> rope, language_name |-> language_name, version |-> 0]

\* The open documents: one of a known grammar, one without a language name,
\* one (not a file) whose language has no grammar entry, one of a grammar
\* whose supertype map has the key ERROR.
Documents ==
    ("file:///tmp/test.scm" :> Document(TestTree, "SOURCE", <<"lang">>)) @@
    ("file:///q/highlights.scm" :> Document(HighlightsTree, "HIGHLIGHTS", <<>>)) @@
    ("untitled:nolang" :> Document(SmallTree, "SMALL", <<"nolang">>)) @@
    ("file:///e/errlang.scm" :> Document(SmallTree, "SMALL", <<"errlang">>))

\* A URI of no open document.
ClosedUri == "file:///tmp/closed.scm"

Uris == DOMAIN Documents \cup {ClosedUri}

\* util::uri_to_basename (called at hover.rs 131): the file stem of a file
\* URI, None for a URI that is no file path.
uri_to_basename(uri) ==
    CASE uri = "file:///tmp/test.scm" -> <<"test">>
      [] uri = "file:///q/highlights.scm" -> <<"highlights">>
      [] uri = "file:///e/errlang.scm" -> <<"errlang">>
      [] uri = "file:///tmp/closed.scm" -> <<"closed">>
      [] OTHER -> <<>>

\* The cursor positions of a request: position p is inside the p-th node of
\* the document's tree, position 0 is where the tree has no node.
Positions(uri) == IF uri \in DOMAIN Documents THEN 0..Len(Documents[uri].tree) ELSE {0}

\* hover.rs 30-32: tree.root_node().descendant_for_point_range(position, position)
descendant_for_point_range(tree, position) ==
    IF position \in 1..Len(tree) THEN <<tree[position]>> ELSE <<>>

\* hover.rs 127-128: get_current_capture_node(tree.root_node(), position)
get_current_capture_node(tree, position) ==
    IF position \in 1..Len(tree) THEN tree[position].capture ELSE <<>>

(***************************************************************************)
(* hover: the response.                                                    *)
(***************************************************************************)
\* Ok(None)
OkNone == [status |-> "ok", hover |-> <<>>]

\* Ok(Some(Hover { range, contents: Markdown(value) })); a value is the
\* sequence of the fragments the code concatenates.
OkSome(range, value) == [status |-> "ok", hover |-> <<[range |-> range, value |-> value]>>]

\* include_str!(docs/<file>)
StaticDoc(file) == <<"include_str!", file>>

ValidatorAlwaysPredicates(opts, is_predicate) == opts.valid_predicates

\* hover.rs 54-58
Validator(opts, is_predicate) ==
    IF is_predicate THEN opts.valid_predicates ELSE opts.valid_directives

RECURSIVE ParameterLines(_)
\* hover.rs 61-66
ParameterLines(parameters) ==
    IF parameters = <<>> THEN <<>>
    ELSE LET param == Head(parameters)
         IN <<"- Type: '", param.type_, "' (", param.arity, ")\n">>
            \o (IF param.description # <<>>
                THEN <<"  - ", param.description[1], "\n">> ELSE <<>>)
            \o ParameterLines(Tail(parameters))

\* hover.rs 60-66
SignatureValue(predicate) ==
    <<predicate.description, "\n\n---\n\n## Parameters:\n\n">>
    \o ParameterLines(predicate.parameters)

\* hover.rs 50-75: an identifier whose parent is a predicate.
PredicateHover(node, opts) ==
    LET is_predicate == node.named_child1 = <<"?">>
        validator == Validator(opts, is_predicate)
        predicate == MapGet(validator, node.text)
    IN  IF predicate # <<>>
        THEN OkSome(node.range, SignatureValue(predicate[1]))
        ELSE OkNone

\* Display of a (named) symbol, as the test expects it (hover.rs 255-256).
SymbolDisplay(sym) == <<"(", sym.label, ")">>

RECURSIVE SubtypeLinesSkippingLast(_)
SubtypeLinesSkippingLast(subtypes) ==
    IF Len(subtypes) <= 1 THEN <<>>
    ELSE <<"\n">> \o SymbolDisplay(Head(subtypes)) \o SubtypeLinesSkippingLast(Tail(subtypes))

RECURSIVE SubtypeLines(_)
\* hover.rs 79-82: the fold over the subtypes
SubtypeLines(subtypes) ==
    IF subtypes = <<>> THEN <<>>
    ELSE <<"\n">> \o SymbolDisplay(Head(subtypes)) \o SubtypeLines(Tail(subtypes))

\* hover.rs 77-85
SubtypesValue(node_text, subtypes) ==
    <<"Subtypes of '(", node_text, ")':\n\n'''query">> \o SubtypeLines(subtypes) \o <<"\n'''">>

\* hover.rs 24-28
Supertypes(doc, langs) ==
    LET language_data == IF doc.language_name = <<>> THEN <<>>
                         ELSE MapGet(langs, doc.language_name[1])
    IN  IF Len(language_data) = 0 THEN <<>> ELSE <<language_data[1].supertype_map>>

\* hover.rs 77-104: an identifier whose parent is a named or a missing node.
NamedNodeHover(node, supertypes) ==
    LET sym == [label |-> node.text, named |-> TRUE]
        subtypes == IF Len(supertypes) = 0 THEN <<>> ELSE MapGet(supertypes[1], sym)
    IN  IF Len(subtypes) # 0
        THEN OkSome(node.range, SubtypesValue(node.text, subtypes[1]))
        ELSE IF node.text = "ERROR"
        THEN OkSome(node.range, StaticDoc("docs/error.md"))
        ELSE OkNone

NoMatchIsAnError == [status |-> "err", hover |-> <<>>]

\* hover.rs 181
NoMatch == OkNone

\* The outcome of hover.rs 17-129 and 146-181 under the first read guard:
\* either the response, or the capture for which the second read guard is
\* acquired (hover.rs 130).
Respond(result) == [next |-> "return", result |-> result]

HoverBodyOutcome(uri, position, opts, docs, langs) ==
    IF uri \notin DOMAIN docs THEN Respond(OkNone)
    ELSE
    LET doc == docs[uri]
        found == descendant_for_point_range(doc.tree, position)
    IN  IF Len(found) = 0 THEN Respond(OkNone)
        ELSE
        LET node == found[1]
            capture == get_current_capture_node(doc.tree, position)
        IN  IF /\ node.kind = "identifier"
               /\ node.parent \in {<<"named_node">>, <<"missing_node">>, <<"predicate">>}
            THEN IF node.parent = <<"predicate">>
                 THEN Respond(PredicateHover(node, opts))
                 ELSE Respond(NamedNodeHover(node, Supertypes(doc, langs)))
            ELSE IF node.kind = "MISSING"
            THEN Respond(OkSome(node.range, StaticDoc("docs/missing.md")))
            ELSE IF node.kind = "_"
            THEN Respond(OkSome(node.range, StaticDoc("docs/wildcard.md")))
            ELSE IF Len(capture) # 0
            THEN [next |-> "capture", result |-> OkNone]
            ELSE IF node.kind = "." /\ node.parent # <<>> /\ node.parent # <<"predicate">>
            THEN Respond(OkSome(node.range, StaticDoc("docs/anchor.md")))
            ELSE IF node.kind \in {"?", "*", "+"}
            THEN Respond(OkSome(node.range, StaticDoc("docs/quantification.md")))
            ELSE IF node.kind \in {"[", "]"}
            THEN Respond(OkSome(node.range, StaticDoc("docs/alternation.md")))
            ELSE Respond(NoMatch)

\* hover.rs 131-145 and 181, under the second read guard: the description of
\* the capture (its text without the sigil) among the captures of the
\* document's basename.
CaptureHover(uri, capture, opts) ==
    LET base == uri_to_basename(uri)
        captures == IF base = <<>> THEN <<>> ELSE MapGet(opts.valid_captures, base[1])
        description == IF Len(captures) = 0 THEN <<>>
                       ELSE MapGet(captures[1], Tail(capture.text)[1])
    IN  IF description # <<>>
        THEN OkSome(capture.range, <<"## '">> \o capture.text \o <<"'\n\n", description[1]>>)
        ELSE NoMatch

(***************************************************************************)
(* The reader-writer lock of backend.options (tokio::sync::RwLock): fair,  *)
(* write-preferring; acquirers that cannot proceed queue in FIFO order and *)
(* a release hands the lock to the head of the queue.                      *)
(***************************************************************************)
Hovers == 1..NumHovers

Reader(h) == [kind |-> "read", id |-> h]

WriterWaiter == [kind |-> "write", id |-> 0]

RECURSIVE SumGuards(_, _)
\* The number of read guards held.
SumGuards(g, hs) ==
    IF hs = {} THEN 0
    ELSE LET h == CHOOSE x \in hs : TRUE IN g[h] + SumGuards(g, hs \ {h})

ReadAvailableUnlocked(q, w) == TRUE

\* RwLock::read (hover.rs 15 and 130) proceeds at once when no writer holds
\* the lock and nobody is queued; it suspends the caller otherwise.
ReadAvailable(q, w) == q = <<>> /\ w # "holding"

\* RwLock::write proceeds at once when nobody holds the lock or is queued.
WriteAvailable(q, w, readers) == q = <<>> /\ w # "holding" /\ readers = 0

RECURSIVE Granted(_, _, _)
\* How many waiters at the head of the queue a release lets proceed: readers
\* up to the first writer, or the writer at the head once no guard is held.
Granted(q, readers, writing) ==
    IF q = <<>> \/ writing THEN 0
    ELSE IF Head(q).kind = "write"
    THEN (IF readers = 0 THEN 1 ELSE 0)
    ELSE 1 + Granted(Tail(q), readers + 1, writing)

\* The state of the lock's clients after a release that leaves the hovers at
\* hp with the guards g and the writer at w.
AfterRelease(hp, g, w) ==
    LET k == Granted(queue, SumGuards(g, Hovers), w = "holding")
        woken == {queue[i] : i \in 1..k}
    IN  /\ queue' = SubSeq(queue, k + 1, Len(queue))
        /\ hpc' = [h \in Hovers |->
                     IF Reader(h) \in woken
                     THEN (IF hp[h] = "wait1" THEN "body" ELSE "cap")
                     ELSE hp[h]]
        /\ guards' = [h \in Hovers |-> IF Reader(h) \in woken THEN g[h] + 1 ELSE g[h]]
        /\ wpc' = IF WriterWaiter \in woken THEN "holding" ELSE w

(***************************************************************************)
(* hover: the request.                                                     *)
(***************************************************************************)
NoRequest == [uri |-> "", position |-> 0]

\* hover.rs 12-15: a request arrives and awaits the first read guard.
HoverRequest(h, uri, position) ==
    /\ hpc[h] = "idle"
    /\ hreq' = [hreq EXCEPT ![h] = [uri |-> uri, position |-> position]]
    /\ IF ReadAvailable(queue, wpc)
       THEN /\ hpc' = [hpc EXCEPT ![h] = "body"]
            /\ guards' = [guards EXCEPT ![h] = 1]
            /\ UNCHANGED queue
       ELSE /\ hpc' = [hpc EXCEPT ![h] = "wait1"]
            /\ queue' = Append(queue, Reader(h))
            /\ UNCHANGED guards
    /\ UNCHANGED <<options, document_map, language_map, wpc, wnew, wstep, hresult>>
    /\ UNCHANGED lint_vars

\* hover.rs 17-130 and 146-181: under the first read guard the node is looked
\* up and classified.  Every branch but the capture's computes the response;
\* the capture's awaits a second read guard while the first is still held.
HoverBody(h) ==
    /\ hpc[h] = "body"
    /\ LET out == HoverBodyOutcome(hreq[h].uri, hreq[h].position, options,
                                   document_map, language_map)
       IN  IF out.next = "return"
           THEN /\ hresult' = [hresult EXCEPT ![h] = out.result]
                /\ hpc' = [hpc EXCEPT ![h] = "done"]
                /\ UNCHANGED <<guards, queue>>
           ELSE IF ReadAvailable(queue, wpc)
           THEN /\ hpc' = [hpc EXCEPT ![h] = "cap"]
                /\ guards' = [guards EXCEPT ![h] = guards[h] + 1]
                /\ UNCHANGED <<hresult, queue>>
           ELSE /\ hpc' = [hpc EXCEPT ![h] = "wait2"]
                /\ queue' = Append(queue, Reader(h))
                /\ UNCHANGED <<hresult, guards>>
    /\ UNCHANGED <<options, document_map, language_map, wpc, wnew, wstep, hreq>>
    /\ UNCHANGED lint_vars

\* hover.rs 131-145 and 181: under the second read guard the capture's
\* description is looked up.
HoverCapture(h) ==
    /\ hpc[h] = "cap"
    /\ LET tree == document_map[hreq[h].uri].tree
           capture == get_current_capture_node(tree, hreq[h].position)[1]
       IN  hresult' = [hresult EXCEPT ![h] = CaptureHover(hreq[h].uri, capture, options)]
    /\ hpc' = [hpc EXCEPT ![h] = "done"]
    /\ UNCHANGED <<options, document_map, language_map, guards, queue, wpc, wnew,
                   wstep, hreq>>
    /\ UNCHANGED lint_vars

\* hover returns: its read guards are dropped and the response is sent.
HoverReturn(h) ==
    /\ hpc[h] = "done"
    /\ AfterRelease([hpc EXCEPT ![h] = "idle"], [guards EXCEPT ![h] = 0], wpc)
    /\ hreq' = [hreq EXCEPT ![h] = NoRequest]
    /\ hresult' = [hresult EXCEPT ![h] = OkNone]
    /\ UNCHANGED <<options, document_map, language_map, wnew, wstep>>
    /\ UNCHANGED lint_vars

(***************************************************************************)
(* The registry replace: a new configuration is installed under the write  *)
(* lock.                                                                   *)
(***************************************************************************)
\* The writer asks for the write lock.
WriteRequest(new) ==
    /\ wpc = "idle"
    /\ new # options
    /\ wnew' = new
    /\ wstep' = 0
    /\ IF WriteAvailable(queue, wpc, SumGuards(guards, Hovers))
       THEN /\ wpc' = "holding"
            /\ UNCHANGED queue
       ELSE /\ wpc' = "waiting"
            /\ queue' = Append(queue, WriterWaiter)
    /\ UNCHANGED <<options, document_map, language_map, guards, hpc, hreq, hresult>>
    /\ UNCHANGED lint_vars

\* Under the write lock the new value is moved into place, field by field.
WriteInstall ==
    /\ wpc = "holding"
    /\ wstep < Len(OptionsFields)
    /\ LET f == OptionsFields[wstep + 1]
       IN  options' = [options EXCEPT ![f] = wnew[f]]
    /\ wstep' = wstep + 1
    /\ UNCHANGED <<document_map, language_map, guards, queue, wpc, wnew, hpc,
                   hreq, hresult>>
    /\ UNCHANGED lint_vars

\* The write guard is dropped.
WriteRelease ==
    /\ wpc = "holding"
    /\ wstep = Len(OptionsFields)
    /\ AfterRelease(hpc, guards, "idle")
    /\ UNCHANGED <<options, document_map, language_map, wnew, wstep, hreq, hresult>>
    /\ UNCHANGED lint_vars

(***************************************************************************)
(* The specifications.                                                     *)
(***************************************************************************)
\* The server with no request in flight.
HoverInit ==
    /\ options = OptionsA
    /\ document_map = Documents
    /\ language_map = Languages
    /\ guards = [h \in Hovers |-> 0]
    /\ queue = <<>>
    /\ wpc = "idle"
    /\ wnew = OptionsA
    /\ wstep = 0
    /\ hpc = [h \in Hovers |-> "idle"]
    /\ hreq = [h \in Hovers |-> NoRequest]
    /\ hresult = [h \in Hovers |-> OkNone]

LintNext ==
    \/ LintParseConfig
    \/ LintDiscover
    \/ LintReadNext
    \/ LintJoin
    \/ LintReturn
    \/ \E i \in FilesIdx : TaskDiagnose(i)
    \/ \E i \in FilesIdx : TaskCheck(i)
    \/ \E i \in FilesIdx : TaskReport(i)

\* The linter run as a command: no server request is in flight.
LintSpecInit == LintInit /\ HoverInit

LintSpec == LintSpecInit /\ [][LintNext]_vars

HoverNext ==
    \/ \E h \in Hovers : \E uri \in Uris : \E position \in Positions(uri) :
          HoverRequest(h, uri, position)
    \/ \E h \in Hovers : HoverBody(h)
    \/ \E h \in Hovers : HoverCapture(h)
    \/ \E h \in Hovers : HoverReturn(h)
    \/ \E new \in Registries : WriteRequest(new)
    \/ WriteInstall
    \/ WriteRelease

\* The server: no lint run is started.
HoverSpecInit == LintInit /\ config_ok /\ scm_files = <<>> /\ HoverInit

HoverSpec == HoverSpecInit /\ [][HoverNext]_vars

(***************************************************************************)
(* The batch linter: properties.                                           *)
(***************************************************************************)
AllClean ==
    /\ config_ok
    /\ \A i \in FilesIdx : scm_files[i].readable /\ scm_files[i].diags = 0

\* C1: lint_directories returns 0 exactly when the configuration parsed, every
\* file was read and no file has a diagnostic, and 1 in every other case; the
\* shared exit code, once 1, is never 0 again.
C1_ExitCodeZeroIffClean ==
    /\ [](lpc = "done" => /\ ret \in {<<0>>, <<1>>}
                          /\ (ret = <<0>>) <=> AllClean)
    /\ [][exit_code = 1 => exit_code' = 1]_vars

\* A run that returned 1 whose first file has diagnostics and whose second
\* file is clean.
C1_Witness ==
    /\ lpc = "done" /\ config_ok /\ Len(scm_files) = 2
    /\ scm_files[1].readable /\ scm_files[1].diags > 0
    /\ scm_files[2].readable /\ scm_files[2].diags = 0
    /\ task[1] = "done" /\ task[2] = "done"
    /\ ret = <<1>>

FilesUntouched ==
    /\ ~discovered
    /\ idx = 1
    /\ \A i \in FilesIdx : task[i] = "none" /\ ~read_failed[i] /\ reported[i] = 0

\* C3: the configuration is parsed once, before any file is touched; when it
\* does not parse, the failure is reported, lint_directories returns 1 at
\* once, and no file is discovered, read or linted.
C3_ConfigErrorIsFatal ==
    /\ parse_count <= 1
    /\ ~FilesUntouched => parse_count = 1 /\ config_ok
    /\ (parse_count = 1 /\ ~config_ok) =>
           lpc = "done" /\ ret = <<1>> /\ config_error /\ FilesUntouched

\* A run over two files that ended on the configuration error.
C3_Witness ==
    /\ ~config_ok /\ lpc = "done" /\ ret = <<1>> /\ config_error
    /\ Len(scm_files) = 2 /\ scm_files[1].readable /\ scm_files[2].diags > 0

UnderGuard == {"body", "wait2", "cap", "done"}

\* C4: from its first read guard to its return, a hover request holds a guard,
\* the registry is one installed configuration (old or new, never a mix of
\* their fields), and it does not change: the lookups of the request, under
\* the first guard or the second, read one version.
C4_HoverSeesOneRegistryVersion ==
    /\ [](\A h \in Hovers : hpc[h] \in UnderGuard =>
              guards[h] >= 1 /\ options \in Registries)
    /\ [][\A h \in Hovers : (hpc[h] \in UnderGuard /\ hpc'[h] \in UnderGuard) =>
              options' = options]_vars

\* A capture's description was looked up under the second guard while a
\* replace waits for the lock.
C4_Witness ==
    \E h \in Hovers :
        /\ hpc[h] = "done" /\ guards[h] = 2 /\ wpc = "waiting"
        /\ hresult[h].hover # <<>>

\* C5: a hover request is suspended on the lock only while the writer holds
\* it; no hover that holds a read guard waits for its second one behind a
\* writer that waits for the first.
C5_SuspendedOnlyWhileWriterHolds ==
    \A h \in Hovers :
        /\ hpc[h] \in {"wait1", "wait2"} => wpc = "holding"
        /\ ~(hpc[h] = "wait2" /\ guards[h] >= 1 /\ wpc = "waiting")

\* The node under the cursor of a request whose response is computed.
Answered(h) == hpc[h] = "done" /\ hreq[h].uri \in DOMAIN document_map

NodeAt(h) == descendant_for_point_range(document_map[hreq[h].uri].tree, hreq[h].position)

\* The supertype map of the grammar entry of the request's document, if any.
GrammarOf(h) ==
    LET name == document_map[hreq[h].uri].language_name
    IN  IF name = <<>> \/ name[1] \notin DOMAIN language_map THEN <<>>
        ELSE <<language_map[name[1]].supertype_map>>

IsListing(r) == Len(r.hover) = 1 /\ r.hover[1].value[1] = "Subtypes of '("

\* C6: for an identifier under a named or missing node whose text is a key of
\* the supertype map of the document's grammar, the response is the listing of
\* the supertype: the identifier's range, every subtype once and in the map's
\* order, also when the text is ERROR; without a language name or a grammar
\* entry, or for another text, the response is no listing.
C6_SupertypeListing ==
    \A h \in Hovers : (Answered(h) /\ NodeAt(h) # <<>>) =>
        LET node == NodeAt(h)[1]
            grammar == GrammarOf(h)
            keys == IF Len(grammar) = 0 THEN {}
                    ELSE {s \in DOMAIN grammar[1] : s.label = node.text}
        IN  (node.kind = "identifier" /\ node.parent \in {<<"named_node">>, <<"missing_node">>}) =>
                IF keys # {}
                THEN LET subtypes == grammar[1][CHOOSE s \in keys : TRUE]
                         labels == {subtypes[i].label : i \in 1..Len(subtypes)}
                         IsLabel(x) == x \in labels
                         value == hresult[h].hover[1].value
                     IN  /\ hresult[h].status = "ok"
                         /\ IsListing(hresult[h])
                         /\ hresult[h].hover[1].range = node.range
                         /\ value[2] = node.text
                         /\ SelectSeq(SubSeq(value, 3, Len(value)), IsLabel)
                               = [i \in 1..Len(subtypes) |-> subtypes[i].label]
                ELSE ~IsListing(hresult[h])

\* The listing for the supertype of `(MISSING supertype)`.
C6_Witness ==
    \E h \in Hovers :
        /\ Answered(h) /\ NodeAt(h) # <<>>
        /\ NodeAt(h)[1].text = "supertype" /\ NodeAt(h)[1].parent = <<"missing_node">>
        /\ IsListing(hresult[h])
        /\ hresult[h].hover[1].range = <<4, 9, 18>>

NothingToShow(h) ==
    \/ hreq[h].uri \notin DOMAIN document_map
    \/ NodeAt(h) = <<>>
    \/ LET node == NodeAt(h)[1]
           grammar == GrammarOf(h)
           capture == get_current_capture_node(document_map[hreq[h].uri].tree,
                                               hreq[h].position)
           base == uri_to_basename(hreq[h].uri)
       IN  \/ /\ node.kind = "identifier"
              /\ node.parent \in {<<"named_node">>, <<"missing_node">>}
              /\ node.text # "ERROR"
              /\ \/ Len(grammar) = 0
                 \/ \A s \in DOMAIN grammar[1] : s.label # node.text
           \/ /\ node.kind = "identifier" /\ node.parent = <<"predicate">>
              /\ node.text \notin DOMAIN options.valid_predicates
              /\ node.text \notin DOMAIN options.valid_directives
           \/ /\ capture # <<>>
              /\ node.kind \notin {"MISSING", "_"}
              /\ ~(node.kind = "identifier" /\ node.parent \in
                      {<<"named_node">>, <<"missing_node">>, <<"predicate">>})
              /\ \/ base = <<>>
                 \/ base[1] \notin DOMAIN options.valid_captures
                 \/ capture[1].text[2] \notin DOMAIN options.valid_captures[base[1]]
           \/ node.kind \in {"program", "("}

\* C9: no step of a hover request changes the document store, the grammar
\* registry or the validator registry, and a request for a URI that is not in
\* the store, or that matches no category, is answered Ok(None).
C9_HoverReadOnly ==
    /\ [][hpc' # hpc => /\ document_map' = document_map
                        /\ language_map' = language_map
                        /\ options' = options]_vars
    /\ [](\A h \in Hovers : (hpc[h] = "done" /\ NothingToShow(h)) => hresult[h] = OkNone)

\* A capture without a description was hovered after the registry was
\* replaced.
C9_Witness ==
    \E h \in Hovers :
        /\ Answered(h) /\ NodeAt(h) # <<>> /\ options = OptionsB
        /\ hreq[h].uri = "file:///q/highlights.scm"
        /\ NodeAt(h)[1].parent = <<"ERROR">> /\ NodeAt(h)[1].kind = "?"
        /\ hresult[h] = OkNone

RECURSIVE SignatureContent(_)
\* Type, arity and (when present) description of every parameter, in order.
SignatureContent(parameters) ==
    IF parameters = <<>> THEN <<>>
    ELSE <<Head(parameters).type_, Head(parameters).arity>>
         \o Head(parameters).description
         \o SignatureContent(Tail(parameters))

IsPunctuation(x) == x \in {"- Type: '", "' (", ")\n", "  - ", "\n"}

IsContent(x) == ~IsPunctuation(x)

\* C10: the name of a predicate-shaped invocation is looked up among the
\* predicates when the invocation's second named child is `?`, among the
\* directives otherwise; a name defined there yields its signature
\* (description, then each parameter's type, arity and description, in order)
\* with the identifier's range, any other name yields nothing.
C10_PredicateNamespace ==
    \A h \in Hovers : (Answered(h) /\ NodeAt(h) # <<>>) =>
        LET node == NodeAt(h)[1]
            namespace == IF node.named_child1 = <<"?">>
                         THEN options.valid_predicates ELSE options.valid_directives
        IN  (node.kind = "identifier" /\ node.parent = <<"predicate">>) =>
                IF node.text \in DOMAIN namespace
                THEN LET definition == namespace[node.text]
                         value == hresult[h].hover[1].value
                     IN  /\ hresult[h].status = "ok"
                         /\ Len(hresult[h].hover) = 1
                         /\ hresult[h].hover[1].range = node.range
                         /\ value[1] = definition.description
                         /\ SelectSeq(SubSeq(value, 3, Len(value)), IsContent)
                               = SignatureContent(definition.parameters)
                ELSE hresult[h] = OkNone

\* `#set?` was hovered while `set` is a directive and no predicate: nothing.
C10_Witness ==
    \E h \in Hovers :
        /\ Answered(h) /\ NodeAt(h) # <<>>
        /\ NodeAt(h)[1].text = "set" /\ NodeAt(h)[1].named_child1 = <<"?">>
        /\ "set" \in DOMAIN options.valid_directives
        /\ "set" \notin DOMAIN options.valid_predicates
        /\ hresult[h] = OkNone

====
